---------------------------- MODULE Spec2Model ----------------------------
(***************************************************************************)
(* Model of the MCP tool server of src/mcp_server.py: seven tools          *)
(* (scrape_page_text, get_weather, get_news_headlines, get_kbo_rank,       *)
(* today_schedule, daily_quote, brief_today) invoked by agent sessions.    *)
(*                                                                         *)
(* Every session holds at most one invocation.  An invocation is a small   *)
(* step machine: the call enters the tool, every answer of an external     *)
(* collaborator (geocoder, forecast API, web page, RSS feed, ranking       *)
(* endpoint, language model) is one step, and the last step leaves the     *)
(* tool either by returning a value or by raising an exception.            *)
(*                                                                         *)
(* The Korean message literals of the source cannot be written in a TLA+   *)
(* string; each is replaced by an ASCII rendering that keeps whatever the  *)
(* source interpolates into it.                                            *)
(***************************************************************************)
EXTENDS Integers, Sequences, FiniteSets, TLC

(***************************************************************************)
(* Bounds of the model.                                                    *)
(***************************************************************************)
NumSessions == 2      \* concurrent agent sessions
MaxKids     == 2      \* children of the <body> element of a scraped page
MaxEntries  == 2      \* entries of the RSS feed
MaxItems    == 3      \* largest max_items argument tried
MaxTeams    == 2      \* teams of the ranking payload

Sessions == 1 .. NumSessions

(***************************************************************************)
(* Program constants.                                                      *)
(***************************************************************************)
MAX_CHARS       == 5000   \* cleaned_text[:5000]
STOP_ATTEMPTS   == 3      \* stop_after_attempt(3)
WAIT_MULTIPLIER == 1      \* wait_exponential(multiplier=1, ...)
WAIT_MIN        == 2      \* wait_exponential(min=2)
WAIT_MAX        == 10     \* wait_exponential(max=10)

VARIABLES
    call,   \* call[s]: the invocation session s is running (locals of the tool)
    log     \* the last record written to the module-level logger

vars == <<call, log>>

(***************************************************************************)
(* Small helpers.                                                          *)
(***************************************************************************)
Min(a, b) == IF a <= b THEN a ELSE b
Max(a, b) == IF a >= b THEN a ELSE b

RECURSIVE Pow2(_)
Pow2(n) == IF n <= 0 THEN 1 ELSE 2 * Pow2(n - 1)

\* Sequences over S of length at most n.
SeqUpTo(S, n) == UNION { [1 .. k -> S] : k \in 0 .. n }

\* "sep".join(parts) on strings.
RECURSIVE Join(_, _)
Join(parts, sep) ==
    IF Len(parts) = 0 THEN ""
    ELSE IF Len(parts) = 1 THEN parts[1]
    ELSE LET half == Len(parts) \div 2
         IN  Join(SubSeq(parts, 1, half), sep) \o sep
             \o Join(SubSeq(parts, half + 1, Len(parts)), sep)

\* str.find: the place of the first occurrence of the string needle in the
\* string hay (0 when there is none).
Find(hay, needle) ==
    LET at == { i \in 1 .. Len(hay) - Len(needle) + 1 :
                  SubSeq(hay, i, i + Len(needle) - 1) = needle }
    IN  IF at = {} THEN 0 ELSE CHOOSE i \in at : \A j \in at : i <= j

(***************************************************************************)
(* The value an invocation leaves its tool with.                           *)
(*   kind = "none"    still running                                        *)
(*   kind = "return"  the tool returned val                                *)
(*   kind = "raise"   exception val left the tool, raised at step at       *)
(***************************************************************************)
NoOut          == [kind |-> "none",   val |-> "", at |-> ""]
Return(v)      == [kind |-> "return", val |-> v,  at |-> ""]
Raise(exc, at) == [kind |-> "raise",  val |-> exc, at |-> at]

NoCoords == [lat |-> 0, lon |-> 0]
NoResp   == [kind |-> "none"]

\* A session with no invocation.
Idle ==
    [tool |-> "none", pc |-> "idle", arg |-> "", num |-> 0, attempt |-> 0, slept |-> 0,
     coords |-> NoCoords, geo |-> <<>>, sent |-> <<>>, ext |-> <<>>,
     resp |-> NoResp, out |-> NoOut]

\* logger.info / logger.warning / logger.error of the module-level logger.
NoLog          == [by |-> 0, level |-> "NONE"]
Logged(s, lvl) == [by |-> s, level |-> lvl]


(***************************************************************************)
(* get_coordinates and its retry wrapper                                   *)
(*   @retry(stop=stop_after_attempt(3),                                    *)
(*          wait=wait_exponential(multiplier=1, min=2, max=10))            *)
(***************************************************************************)
Cities == {"Seoul", "Atlantis"}
Coords == {[lat |-> 37, lon |-> 127], [lat |-> 35, lon |-> 129]}

\* What one geolocator.geocode(city_name) call can do: find a location, find
\* none (it returns None), or raise one of the geocoder's errors.
GeocoderFailures == {"none", "GeocoderTimedOut", "GeocoderServiceError"}

GeocoderOutcomes(cities, failures) ==
    { [kind |-> "found", city |-> city, lat |-> c.lat, lon |-> c.lon] :
        city \in cities, c \in Coords }
    \cup { [kind |-> k, city |-> city, lat |-> 0, lon |-> 0] :
             city \in cities, k \in failures }

\* A get_coordinates that answers "no location" with default coordinates.
get_coordinates_exception_default(o) ==
    IF o.kind \in {"found", "none"} THEN "" ELSE o.kind

\* The exception one attempt of get_coordinates ends with ("" when it returns).
get_coordinates_exception(o) ==
    CASE o.kind = "found" -> ""
      [] o.kind = "none"  -> "ValueError"
      [] OTHER            -> o.kind

\* A wrapper that retries on the geocoder's own errors only.
retry_if_geocoder_error(exc) == exc \in {"GeocoderTimedOut", "GeocoderServiceError"}

\* The retry wrapper names no retry= predicate: the default retries on every
\* exception, the ValueError included.
retry_if(exc) == exc # ""

\* A stop condition that is one attempt late.
stop_after_attempt_late(attempt_number) == attempt_number > STOP_ATTEMPTS

\* stop_after_attempt(3): stop once the attempt number has reached 3.
stop_after_attempt(attempt_number) == attempt_number >= STOP_ATTEMPTS

\* wait_exponential: multiplier * 2^(attempt_number - 1), clamped to [min, max].
wait_exponential(attempt_number) ==
    Max(WAIT_MIN, Min(WAIT_MAX, WAIT_MULTIPLIER * Pow2(attempt_number - 1)))

\* An attempt number kept in one place for all the calls of the process.
attempt_number_shared(s) ==
    CHOOSE n \in { call[t].attempt : t \in Sessions } :
        \A t \in Sessions : call[t].attempt <= n

\* The attempt number the wrapper tests: it lives in the retry state of the call.
attempt_number(s) == call[s].attempt

(***************************************************************************)
(* get_weather                                                             *)
(***************************************************************************)
FullWeather    == [temperature |-> "21.5", windspeed |-> "3.4",
                   weathercode |-> "1", time |-> "2025-06-01T09:00"]
PartialWeather == [temperature |-> "21.5"]
EmptyDict      == [k \in {} |-> ""]

\* dict.get(key, 'N/A')
DictGet(d, key) == IF key \in DOMAIN d THEN d[key] ELSE "N/A"

\* What the forecast request can do: an error status (raise_for_status), a
\* timeout, a body that is no JSON, a JSON body that is no object, or a JSON
\* object with or without current_weather.
ForecastOutcomes ==
    { [kind |-> k, shape |-> "", cw |-> EmptyDict] :
        k \in {"HTTPStatusError", "TimeoutException", "JSONDecodeError"} }
    \cup { [kind |-> "ok", shape |-> "list", cw |-> EmptyDict] }
    \cup { [kind |-> "ok", shape |-> "dict", cw |-> w] :
             w \in {FullWeather, PartialWeather, EmptyDict} }

\* json.dumps(weather_info, ensure_ascii=False, indent=2)
weather_info(city_name, current) ==
    "{\n  city: " \o city_name
    \o ",\n  temperature: " \o DictGet(current, "temperature") \o "C"
    \o ",\n  windspeed: " \o DictGet(current, "windspeed") \o " km/h"
    \o ",\n  weathercode: " \o DictGet(current, "weathercode")
    \o ",\n  time: " \o DictGet(current, "time") \o "\n}"

\* Lines 112-118: the tool is entered, logs, and asks for the coordinates.
get_weather(s, city_name) ==
    /\ call[s].pc = "idle"
    /\ call' = [call EXCEPT ![s] =
                  [Idle EXCEPT !.tool = "get_weather", !.pc = "geocode",
                               !.arg = city_name, !.attempt = 1]]
    /\ log' = Logged(s, "INFO")

\* Lines 92-109: one attempt of get_coordinates under the retry wrapper;
\* the geocoder answers with one of outcomes.
get_coordinates(s, outcomes) ==
    /\ call[s].pc = "geocode"
    /\ \E o \in outcomes :
        LET c   == call[s]
            exc == get_coordinates_exception(o)
            c1  == [c EXCEPT !.geo = Append(@, o), !.ext = Append(@, "geocode")]
        IN  /\ o.city = c.arg
            /\ call' = [call EXCEPT ![s] =
                  IF exc = ""
                    THEN [c1 EXCEPT !.coords = [lat |-> o.lat, lon |-> o.lon],
                                    !.pc = "forecast"]
                  ELSE IF ~retry_if(exc)
                    THEN [c1 EXCEPT !.pc = "done",
                                    !.out = Raise(exc, "get_coordinates")]
                  ELSE IF stop_after_attempt(attempt_number(s))
                    THEN [c1 EXCEPT !.pc = "done",
                                    !.out = Raise("RetryError", "get_coordinates")]
                  ELSE [c1 EXCEPT !.slept = @ + wait_exponential(c.attempt),
                                  !.attempt = @ + 1]]
            /\ log' = IF exc = "" THEN Logged(s, "INFO")
                      ELSE IF exc # "ValueError" THEN Logged(s, "WARNING")
                      ELSE log

\* Lines 120-139: the forecast request with the coordinates just resolved,
\* and the summary built from its answer.  Nothing here is caught.
get_weather_forecast(s, outcomes) ==
    /\ call[s].pc = "forecast"
    /\ \E r \in outcomes :
        LET c  == call[s]
            c1 == [c EXCEPT !.sent = <<c.coords>>, !.ext = Append(@, "forecast"),
                            !.resp = r, !.pc = "done"]
        IN  /\ call' = [call EXCEPT ![s] =
                  IF r.kind # "ok"
                    THEN [c1 EXCEPT !.out = Raise(r.kind, "forecast")]
                  ELSE IF r.shape # "dict"
                    THEN [c1 EXCEPT !.out = Raise("AttributeError", "forecast")]
                  ELSE [c1 EXCEPT !.out = Return(weather_info(c.arg, r.cw))]]
            /\ log' = IF r.kind = "ok" /\ r.shape = "dict"
                        THEN Logged(s, "INFO") ELSE log

(***************************************************************************)
(* scrape_page_text                                                        *)
(*                                                                         *)
(* A page is the tree html.parser builds: elements and text nodes.  A text *)
(* is a sequence of tokens, each a word of n non-blank characters ("w") or *)
(* a run of n blanks ("s"); the text the tool returns is a sequence of     *)
(* runs that also carry where their characters come from: the path of the  *)
(* text node in the page, or the literal message of the source.            *)
(***************************************************************************)
STRIP_TAGS == {"script", "style", "nav", "footer", "header"}

W(n) == [k |-> "w", n |-> n]
S(n) == [k |-> "s", n |-> n]

Text(ws)        == [tag |-> "#text", ws |-> ws, kids |-> <<>>]
Elem(tag, kids) == [tag |-> tag, ws |-> <<>>, kids |-> kids]

Run(k, n, path) == [k |-> k, n |-> n, path |-> path, lit |-> ""]
Literal(msg)    == <<[k |-> "lit", n |-> Len(msg), path |-> <<>>, lit |-> msg]>>

RECURSIVE TextLen(_)
TextLen(runs) == IF runs = <<>> THEN 0 ELSE Head(runs).n + TextLen(Tail(runs))

\* BeautifulSoup(resp.text, "html.parser"): the tree, every node knowing its place.
RECURSIVE BeautifulSoup(_, _)
BeautifulSoup(node, path) ==
    [tag |-> node.tag, ws |-> node.ws, path |-> path,
     kids |-> [i \in 1 .. Len(node.kids) |->
                 BeautifulSoup(node.kids[i], Append(path, i))]]

\* for tag in soup([...]): tag.decompose() -- every element of one of the
\* tags leaves the tree with all it contains.
RECURSIVE decompose(_, _)
RECURSIVE decompose_kids(_, _)
decompose(node, tags) == [node EXCEPT !.kids = decompose_kids(node.kids, tags)]
decompose_kids(kids, tags) ==
    IF kids = <<>> THEN <<>>
    ELSE (IF Head(kids).tag \in tags THEN <<>> ELSE <<decompose(Head(kids), tags)>>)
         \o decompose_kids(Tail(kids), tags)

\* soup.body: the first element named tag below node, in document order
\* (<<>> when there is none: None).
RECURSIVE find_tag(_, _)
RECURSIVE find_tag_in(_, _)
find_tag(node, tag) == find_tag_in(node.kids, tag)
find_tag_in(kids, tag) ==
    IF kids = <<>> THEN <<>>
    ELSE IF Head(kids).tag = tag THEN <<Head(kids)>>
    ELSE LET below == find_tag(Head(kids), tag)
         IN  IF below # <<>> THEN below ELSE find_tag_in(Tail(kids), tag)

\* The text nodes below node, in document order.
RECURSIVE all_strings(_)
RECURSIVE all_strings_in(_)
all_strings(node) ==
    IF node.tag = "#text" THEN <<node>> ELSE all_strings_in(node.kids)
all_strings_in(kids) ==
    IF kids = <<>> THEN <<>>
    ELSE all_strings(Head(kids)) \o all_strings_in(Tail(kids))

\* str.strip() on a token sequence.
RECURSIVE lstrip(_)
lstrip(ws) ==
    IF ws # <<>> /\ Head(ws).k = "s" THEN lstrip(Tail(ws)) ELSE ws
RECURSIVE rstrip(_)
rstrip(ws) ==
    IF ws # <<>> /\ ws[Len(ws)].k = "s" THEN rstrip(SubSeq(ws, 1, Len(ws) - 1)) ELSE ws
strip(ws) == rstrip(lstrip(ws))

\* The runs of one text node.
RunsOf(ws, path) == [i \in 1 .. Len(ws) |-> Run(ws[i].k, ws[i].n, path)]

\* get_text(separator=" ", strip=True): every text stripped, the empty ones
\* dropped, the rest joined by the separator.
RECURSIVE get_text_join(_)
get_text_join(strings) ==
    IF strings = <<>> THEN <<>>
    ELSE LET first == strip(Head(strings).ws)
             rest  == get_text_join(Tail(strings))
         IN  IF first = <<>> THEN rest
             ELSE IF rest = <<>> THEN RunsOf(first, Head(strings).path)
             ELSE RunsOf(first, Head(strings).path) \o <<Run("s", 1, <<>>)>> \o rest
get_text(node) == get_text_join(all_strings(node))

\* text.split(): the words between the blanks.
split(runs) == SelectSeq(runs, LAMBDA r : r.k = "w")

\* " ".join(words)
RECURSIVE join_words(_)
join_words(words) ==
    IF Len(words) <= 1 THEN words
    ELSE <<Head(words), Run("s", 1, <<>>)>> \o join_words(Tail(words))

\* text[:limit]: the first limit characters.
RECURSIVE slice_to(_, _)
slice_to(runs, limit) ==
    IF runs = <<>> \/ limit <= 0 THEN <<>>
    ELSE IF Head(runs).n <= limit
         THEN <<Head(runs)>> \o slice_to(Tail(runs), limit - Head(runs).n)
    ELSE <<[Head(runs) EXCEPT !.n = limit]>>

\* A tag list that forgets the header.
tags_to_strip_without_header == STRIP_TAGS \ {"header"}

\* The tags line 66 hands to soup(...).
tags_to_strip == STRIP_TAGS

\* if soup.body: -- a Tag is true whatever it holds.
body_found(body) == body # <<>>

\* Lines 63-76: the text of a fetched page.
page_text(doc) ==
    LET soup == decompose(BeautifulSoup(doc, <<>>), tags_to_strip)
        body == find_tag(soup, "body")
    IN  IF body_found(body)
          THEN slice_to(join_words(split(get_text(body[1]))), MAX_CHARS)
        ELSE Literal("(no body content found)")

Urls == {"https://example.com/"}
LongWord == MAX_CHARS - 1

\* The texts a page holds: blanks only, a short word, a word of 4999
\* characters, and words of both sizes among blanks.
TextVariants ==
    { <<S(1)>>, <<W(1)>>, <<W(LongWord)>>, <<S(2), W(1), S(3), W(LongWord), S(1)>> }
TextNodes  == { Text(ws) : ws \in TextVariants }
InnerElems ==
    { Elem(tag, kids) : tag \in {"p"} \cup STRIP_TAGS,
                        kids \in {<<>>} \cup { <<x>> : x \in TextNodes } }
Bodies     == { Elem("body", kids) : kids \in SeqUpTo(TextNodes \cup InnerElems, MaxKids) }
FewBodies  == { Elem("body", kids) : kids \in {<<>>} \cup { <<x>> : x \in TextNodes } }
Root(kids) == Elem("[document]", kids)

\* Pages with a body, pages whose body sits inside a header, pages without.
Docs ==
    { Root(<<b>>) : b \in Bodies }
    \cup { Root(<<Elem("header", <<b>>)>>) : b \in FewBodies }
    \cup { Root(<<Elem("p", <<x>>)>>) : x \in TextNodes }

FewDocs == { Root(<<b>>) : b \in FewBodies }

\* What httpx.get + raise_for_status can do.
FetchOutcomes(docs) ==
    { [kind |-> "HTTPStatusError", status |-> st, doc |-> Root(<<>>)] : st \in {404, 500} }
    \cup { [kind |-> k, status |-> 0, doc |-> Root(<<>>)] :
             k \in {"TimeoutException", "ConnectError"} }
    \cup { [kind |-> "ok", status |-> 200, doc |-> d] : d \in docs }

\* Lines 52-60: the tool is entered, logs and sends the request.
scrape_page_text(s, url) ==
    /\ call[s].pc = "idle"
    /\ call' = [call EXCEPT ![s] =
                  [Idle EXCEPT !.tool = "scrape_page_text", !.pc = "fetch",
                               !.arg = url, !.ext = <<"httpx.get">>]]
    /\ log' = Logged(s, "INFO")

\* Lines 60-89: the answer, the text of the page or the error message.
scrape_page_text_response(s, outcomes) ==
    /\ call[s].pc = "fetch"
    /\ \E r \in outcomes :
        /\ call' = [call EXCEPT ![s] = [@ EXCEPT !.pc = "done", !.resp = r, !.out =
              CASE r.kind = "ok" -> Return(page_text(r.doc))
                [] r.kind = "HTTPStatusError" ->
                     Return(Literal("HTTP error: " \o ToString(r.status)))
                [] r.kind = "TimeoutException" ->
                     Return(Literal("request timed out: the page answers too slowly."))
                [] OTHER -> Return(Literal("scraping failed: " \o r.kind))]]
        /\ log' = IF r.kind # "ok" THEN Logged(s, "ERROR")
                  ELSE IF body_found(find_tag(decompose(r.doc, tags_to_strip), "body"))
                    THEN Logged(s, "INFO")
                  ELSE log

(***************************************************************************)
(* get_news_headlines                                                      *)
(***************************************************************************)
\* An attribute of a feed entry: absent, None, or a string.
Absent == [k |-> "absent", s |-> ""]
None   == [k |-> "none", s |-> ""]
Str(x) == [k |-> "str", s |-> x]

NO_TITLE == "(no title)"
NO_LINK  == "#"

\* getattr(entry, name, default)
getattr(entry, name, default) ==
    IF entry[name].k = "absent" THEN Str(default) ELSE entry[name]

\* if not value or value == None: value = placeholder
or_placeholder(value, placeholder) ==
    IF value.k = "none" \/ value.s = "" THEN placeholder ELSE value.s

\* seq[:m]
slice_first(seq, m) ==
    IF m >= 0 THEN SubSeq(seq, 1, Min(m, Len(seq)))
    ELSE SubSeq(seq, 1, Max(Len(seq) + m, 0))

\* f"{i}. [{title}]({link})"
news_item(i, entry) ==
    ToString(i) \o ". [" \o or_placeholder(getattr(entry, "title", NO_TITLE), NO_TITLE)
    \o "](" \o or_placeholder(getattr(entry, "link", NO_LINK), NO_LINK) \o ")"

\* A numbering that starts at 0.
enumerate_from_zero == 1 - 1

\* enumerate(..., 1): the number of the first item.
enumerate_start == 1

\* Lines 152-173: the headlines of a parsed feed.
news_text(entries, max_items) ==
    IF entries = <<>> THEN "no news could be fetched."
    ELSE LET taken == slice_first(entries, max_items)
         IN  Join([i \in 1 .. Len(taken) |-> news_item(i + enumerate_start - 1, taken[i])],
                  "\n")

EntryKinds ==
    { [title |-> ti, link |-> li] :
        ti \in {Absent, None, Str(""), Str("A"), Str("B")},
        li \in {Absent, Str(""), Str("http://u/1")} }
FewEntryKinds == { [title |-> Str("A"), link |-> Str("http://u/1")],
                   [title |-> Absent, link |-> Absent] }

\* What feedparser.parse can do: a feed (maybe without entries), or an exception.
FeedOutcomes(kinds) ==
    { [kind |-> "ok", entries |-> e] : e \in SeqUpTo(kinds, MaxEntries) }
    \cup { [kind |-> "Exception", entries |-> <<>>] }

\* Lines 146-150: the tool is entered, logs and asks for the feed.
get_news_headlines(s, max_items) ==
    /\ call[s].pc = "idle"
    /\ call' = [call EXCEPT ![s] =
                  [Idle EXCEPT !.tool = "get_news_headlines", !.pc = "feed",
                               !.num = max_items, !.ext = <<"feedparser.parse">>]]
    /\ log' = Logged(s, "INFO")

\* Lines 150-178: the parsed feed, the headlines or the error message.
get_news_headlines_response(s, outcomes) ==
    /\ call[s].pc = "feed"
    /\ \E r \in outcomes :
        /\ call' = [call EXCEPT ![s] = [@ EXCEPT !.pc = "done", !.resp = r, !.out =
              IF r.kind = "ok" THEN Return(news_text(r.entries, call[s].num))
              ELSE Return("news lookup failed: " \o r.kind)]]
        /\ log' = IF r.kind # "ok" THEN Logged(s, "ERROR")
                  ELSE IF r.entries = <<>> THEN log
                  ELSE Logged(s, "INFO")

(***************************************************************************)
(* get_kbo_rank                                                            *)
(***************************************************************************)
KBO_NO_DATA == "KBO rank data could not be fetched."
KBO_HEADER  == "## 2025 KBO league rank\n"
KBO_FAILED  == "KBO rank lookup failed: "
NO_TEAM_NAME == "(no team name)"

\* A win percentage of the payload: a number (in thousandths), null, a string.
Num(v)  == [k |-> "num", v |-> v]
NullPct == [k |-> "none", v |-> 0]
StrPct  == [k |-> "str", v |-> 0]

\* The "rank" object of a team: absent, null, or an object.
RankObj(wpct) == [k |-> "dict", rank |-> "1", win |-> "85", loss |-> "56",
                  streak |-> "W2", wpct |-> wpct]
NoRank(k)     == [k |-> k, rank |-> "None", win |-> "None", loss |-> "None",
                  streak |-> "None", wpct |-> NullPct]

\* A team of the list: an object, or something else (a string, a number).
Team(name, rank) == [k |-> "dict", shortName |-> name, rank |-> rank]
NotATeam         == [k |-> "other", shortName |-> Absent, rank |-> NoRank("absent")]

\* f"{x:.3f}" of a number given in thousandths.
format_3f(v) ==
    LET frac == v % 1000
    IN  ToString(v \div 1000) \o "."
        \o (IF frac < 10 THEN "00" ELSE IF frac < 100 THEN "0" ELSE "")
        \o ToString(frac)

\* The exception formatting one team raises ("" when it raises none):
\* team.get on what is no object, rank_info.get on null, :.3f on what is no number.
rank_line_exception(team) ==
    IF team.k # "dict" THEN "AttributeError"
    ELSE IF team.rank.k = "null" THEN "AttributeError"
    ELSE IF team.rank.wpct.k = "none" THEN "TypeError"
    ELSE IF team.rank.wpct.k = "str" THEN "ValueError"
    ELSE ""

\* Lines 210-218: the line of one team.
rank_line(team) ==
    LET rank_info == team.rank
        name == IF team.shortName.k = "absent" THEN NO_TEAM_NAME
                ELSE IF team.shortName.k = "none" THEN "None"
                ELSE team.shortName.s
    IN  rank_info.rank \o "th: " \o name \o " - " \o rank_info.win \o "W "
        \o rank_info.loss \o "L (pct " \o format_3f(rank_info.wpct.v) \o ", "
        \o rank_info.streak \o ")"

\* A loop that skips the team it cannot format and goes on.
RECURSIVE rank_lines_skipping(_, _)
rank_lines_skipping(teams, result) ==
    IF teams = <<>> THEN [exc |-> "", result |-> result]
    ELSE IF rank_line_exception(Head(teams)) # ""
         THEN rank_lines_skipping(Tail(teams), result)
    ELSE rank_lines_skipping(Tail(teams), Append(result, rank_line(Head(teams))))

\* Lines 209-219: the loop; the first team that cannot be formatted ends it.
RECURSIVE rank_lines(_, _)
rank_lines(teams, result) ==
    IF teams = <<>> THEN [exc |-> "", result |-> result]
    ELSE IF rank_line_exception(Head(teams)) # ""
         THEN [exc |-> rank_line_exception(Head(teams)), result |-> result]
    ELSE rank_lines(Tail(teams), Append(result, rank_line(Head(teams))))

\* A test that takes only a missing list for "no teams".
no_teams_when_absent(list) == list.k # "list"

\* if not teams:
no_teams(list) == list.k # "list" \/ list.teams = <<>>

\* Lines 198-227: the table of a decoded payload, or the message.
kbo_text(data) ==
    IF data.shape # "dict" THEN KBO_FAILED \o "AttributeError"
    ELSE IF no_teams(data.list) THEN KBO_NO_DATA
    ELSE LET loop == rank_lines(data.list.teams, <<KBO_HEADER>>)
         IN  IF loop.exc # "" THEN KBO_FAILED \o loop.exc
             ELSE Join(loop.result, "\n")

TeamKinds ==
    { Team(n, r) : n \in {Str("LG"), Str("KT"), Absent},
                   r \in {NoRank("absent"), NoRank("null"), RankObj(Num(607)),
                          RankObj(Num(1000)), RankObj(NullPct), RankObj(StrPct)} }
    \cup {NotATeam}
FewTeamKinds == { Team(Str("LG"), RankObj(Num(607))), Team(Str("KT"), RankObj(NullPct)) }

\* What the ranking request can do.
RankOutcomes(kinds) ==
    { [kind |-> k, shape |-> "", list |-> [k |-> "absent", teams |-> <<>>]] :
        k \in {"HTTPStatusError", "TimeoutException", "JSONDecodeError"} }
    \cup { [kind |-> "ok", shape |-> "list", list |-> [k |-> "absent", teams |-> <<>>]] }
    \cup { [kind |-> "ok", shape |-> "dict", list |-> [k |-> k, teams |-> <<>>]] :
             k \in {"absent", "null"} }
    \cup { [kind |-> "ok", shape |-> "dict", list |-> [k |-> "list", teams |-> ts]] :
             ts \in SeqUpTo(kinds, MaxTeams) }

\* Lines 189-195: the tool is entered, logs and sends the request.
get_kbo_rank(s) ==
    /\ call[s].pc = "idle"
    /\ call' = [call EXCEPT ![s] =
                  [Idle EXCEPT !.tool = "get_kbo_rank", !.pc = "rank",
                               !.ext = <<"httpx.get">>]]
    /\ log' = Logged(s, "INFO")

\* Lines 195-227: the answer, the table or the message.
get_kbo_rank_response(s, outcomes) ==
    /\ call[s].pc = "rank"
    /\ \E r \in outcomes :
        LET text == IF r.kind = "ok" THEN kbo_text(r) ELSE KBO_FAILED \o r.kind
        IN  /\ call' = [call EXCEPT ![s] =
                          [@ EXCEPT !.pc = "done", !.resp = r, !.out = Return(text)]]
            /\ log' = IF text = KBO_NO_DATA THEN log
                      ELSE IF SubSeq(text, 1, Len(KBO_FAILED)) = KBO_FAILED
                        THEN Logged(s, "ERROR")
                      ELSE Logged(s, "INFO")

(***************************************************************************)
(* today_schedule                                                          *)
(***************************************************************************)
events ==
    << "09:00 - daily stand-up meeting",
       "10:30 - LangGraph study time",
       "13:00 - lunch appointment (Gangnam station)",
       "15:00 - MCP project development",
       "18:00 - workout (gym)",
       "20:00 - dinner" >>

\* Lines 231-244.
today_schedule(s) ==
    /\ call[s].pc = "idle"
    /\ call' = [call EXCEPT ![s] =
                  [Idle EXCEPT !.tool = "today_schedule", !.pc = "done",
                               !.out = Return(Join(events, "\n"))]]
    /\ log' = Logged(s, "INFO")

(***************************************************************************)
(* daily_quote                                                             *)
(***************************************************************************)
\* What the language model call can do: answer, or raise.
QuoteOutcomes ==
    { [kind |-> "ok", content |-> "quote of the day ..."] }
    \cup { [kind |-> k, content |-> ""] : k \in {"APITimeoutError", "AuthenticationError"} }

\* Lines 248-271: the tool is entered, builds the chain and invokes it.
daily_quote(s) ==
    /\ call[s].pc = "idle"
    /\ call' = [call EXCEPT ![s] =
                  [Idle EXCEPT !.tool = "daily_quote", !.pc = "llm",
                               !.ext = <<"chain.invoke">>]]
    /\ UNCHANGED log

\* Lines 271-274: the answer of the model; nothing here is caught.
daily_quote_response(s, outcomes) ==
    /\ call[s].pc = "llm"
    /\ \E r \in outcomes :
        /\ call' = [call EXCEPT ![s] = [@ EXCEPT !.pc = "done", !.resp = r, !.out =
              IF r.kind = "ok" THEN Return(r.content)
              ELSE Raise(r.kind, "chain.invoke")]]
        /\ log' = IF r.kind = "ok" THEN Logged(s, "INFO") ELSE log

(***************************************************************************)
(* brief_today                                                             *)
(***************************************************************************)
\* Lines 285-334: the returned literal, line by line (the backquotes around
\* the tool names are left out: a TLA+ string cannot hold them).
brief_intro ==
    << "",
       "## briefing guide for today",
       "",
       "Run the tools in the following order and present the results to the user:",
       "",
       "### step 1: location",
       "- Find out the location (city) of the user.",
       "- If the location is unknown, ask the user first.",
       "" >>
brief_step_weather ==
    << "### step 2: weather",
       "- Call the get_weather(city) tool to fetch the weather.",
       "" >>
brief_step_news ==
    << "### step 3: news",
       "- Use the get_news_headlines() tool to fetch the main news of today.",
       "" >>
brief_step_kbo ==
    << "### step 4: baseball rank",
       "- Use the get_kbo_rank() tool to fetch the KBO league rank.",
       "" >>
brief_step_schedule ==
    << "### step 5: schedule",
       "- Check the schedule of today with the today_schedule() tool.",
       "" >>
brief_step_quote ==
    << "### step 6: quote",
       "- Fetch the quote of today with the daily_quote() tool.",
       "" >>
brief_format ==
    << "### output format",
       "Compose the result as follows:",
       "",
       "---",
       "",
       "# briefing of today for [user]",
       "",
       "## weather of today",
       "[get_weather result]",
       "",
       "## main news",
       "[get_news_headlines result]",
       "",
       "## KBO league rank",
       "[get_kbo_rank result, nicely formatted]",
       "",
       "## schedule of today",
       "[today_schedule result]",
       "",
       "## quote of today",
       "[daily_quote result]",
       "",
       "---",
       "",
       "Have a nice day!",
       "" >>

\* A guide that names the schedule step before the ranking step.
brief_lines_swapped ==
    brief_intro \o brief_step_weather \o brief_step_news \o brief_step_schedule
    \o brief_step_kbo \o brief_step_quote \o brief_format

brief_lines ==
    brief_intro \o brief_step_weather \o brief_step_news \o brief_step_kbo
    \o brief_step_schedule \o brief_step_quote \o brief_format

\* Lines 278-334.
brief_today(s) ==
    /\ call[s].pc = "idle"
    /\ call' = [call EXCEPT ![s] =
                  [Idle EXCEPT !.tool = "brief_today", !.pc = "done",
                               !.out = Return(Join(brief_lines, "\n"))]]
    /\ UNCHANGED log

(***************************************************************************)
(* The server                                                              *)
(***************************************************************************)
\* The result reaches the caller and the session is free again.
Deliver(s) ==
    /\ call[s].pc = "done"
    /\ call' = [call EXCEPT ![s] = Idle]
    /\ UNCHANGED log

Init ==
    /\ call = [s \in Sessions |-> Idle]
    /\ log = NoLog

\* One agent session, the whole range of arguments and collaborator answers.
Solo == {1}
AllGeocoderOutcomes == GeocoderOutcomes(Cities, GeocoderFailures)
AllFetchOutcomes    == FetchOutcomes(Docs)
AllFeedOutcomes     == FeedOutcomes(EntryKinds)
AllRankOutcomes     == RankOutcomes(TeamKinds)

Next ==
    \E s \in Solo :
        \/ \E city \in Cities : get_weather(s, city)
        \/ get_coordinates(s, AllGeocoderOutcomes)
        \/ get_weather_forecast(s, ForecastOutcomes)
        \/ \E url \in Urls : scrape_page_text(s, url)
        \/ scrape_page_text_response(s, AllFetchOutcomes)
        \/ \E m \in -1 .. MaxItems : get_news_headlines(s, m)
        \/ get_news_headlines_response(s, AllFeedOutcomes)
        \/ get_kbo_rank(s)
        \/ get_kbo_rank_response(s, AllRankOutcomes)
        \/ today_schedule(s)
        \/ daily_quote(s)
        \/ daily_quote_response(s, QuoteOutcomes)
        \/ brief_today(s)
        \/ Deliver(s)

Spec == Init /\ [][Next]_vars

\* Concurrent agent sessions, a few arguments and collaborator answers each.
ConcForecastOutcomes ==
    { r \in ForecastOutcomes : r.kind \in {"ok", "HTTPStatusError"}
                               /\ r.shape # "list" /\ r.cw \in {FullWeather, EmptyDict} }
ConcFetchOutcomes ==
    { r \in FetchOutcomes({Root(<<Elem("body", <<>>)>>),
                           Root(<<Elem("body", <<Text(<<W(1)>>)>>)>>)}) :
        r.kind \in {"ok", "TimeoutException"} }
ConcFeedOutcomes ==
    { [kind |-> "ok", entries |-> <<e>>] : e \in FewEntryKinds }
ConcRankOutcomes ==
    { [kind |-> "ok", shape |-> "dict", list |-> [k |-> "list", teams |-> <<e>>]] :
        e \in FewTeamKinds }

ConcGeocoderOutcomes == GeocoderOutcomes({"Seoul"}, {"none"})

NextConc ==
    \E s \in Sessions :
        \/ \E city \in {"Seoul"} : get_weather(s, city)
        \/ get_coordinates(s, ConcGeocoderOutcomes)
        \/ get_weather_forecast(s, ConcForecastOutcomes)
        \/ \E url \in Urls : scrape_page_text(s, url)
        \/ scrape_page_text_response(s, ConcFetchOutcomes)
        \/ \E m \in {1} : get_news_headlines(s, m)
        \/ get_news_headlines_response(s, ConcFeedOutcomes)
        \/ get_kbo_rank(s)
        \/ get_kbo_rank_response(s, ConcRankOutcomes)
        \/ today_schedule(s)
        \/ daily_quote(s)
        \/ daily_quote_response(s, QuoteOutcomes)
        \/ brief_today(s)
        \/ Deliver(s)

ConcSpec == Init /\ [][NextConc]_vars

(***************************************************************************)
(* Properties                                                              *)
(***************************************************************************)
Found(o)   == o.kind = "found"
Last(seq)  == seq[Len(seq)]
CoordsOf(o) == [lat |-> o.lat, lon |-> o.lon]
Running(s, tool) == call[s].tool = tool
Finished(s, tool) == call[s].tool = tool /\ call[s].pc = "done"

\* C1: whatever its collaborators do, every tool ends by returning a string;
\* an exception leaves a tool only from get_weather's get_coordinates step.
C1_EveryToolReturnsAString ==
    \A s \in Sessions :
        call[s].pc = "done" =>
            \/ call[s].out.kind = "return"
            \/ /\ call[s].tool = "get_weather"
               /\ call[s].out.kind = "raise"
               /\ call[s].out.at = "get_coordinates"

\* C2: the geocoder is called at most 3 times in one get_weather invocation,
\* and when it fails twice and then finds the city, get_weather goes on with
\* the coordinates of the third attempt and returns the weather summary the
\* forecast answer gives.
C2_SucceedsOnThirdAttempt ==
    \A s \in Sessions :
        LET c == call[s]
        IN  /\ Len(c.geo) <= 3
            /\ Len(SelectSeq(c.ext, LAMBDA x : x = "geocode")) <= 3
            /\ ( /\ Running(s, "get_weather")
                 /\ Len(c.geo) = 3
                 /\ ~Found(c.geo[1]) /\ ~Found(c.geo[2]) /\ Found(c.geo[3]) )
               => /\ c.pc \in {"forecast", "done"}
                  /\ c.coords = CoordsOf(c.geo[3])
                  /\ c.pc = "done" =>
                       /\ c.sent = <<CoordsOf(c.geo[3])>>
                       /\ c.out.at # "get_coordinates"
                       /\ (c.resp.kind = "ok" /\ c.resp.shape = "dict")
                            => c.out = Return(weather_info(c.arg, c.resp.cw))

C2_Witness ==
    \E s \in Sessions :
        /\ Finished(s, "get_weather")
        /\ Len(call[s].geo) = 3
        /\ ~Found(call[s].geo[1]) /\ ~Found(call[s].geo[2]) /\ Found(call[s].geo[3])
        /\ call[s].out.kind = "return"
        /\ call[s].slept = 4

\* C3: when the geocoder finds no location for the city, get_weather ends by
\* raising, without a forecast request and without a summary; a forecast
\* request is only ever sent with the coordinates the geocoder has just
\* found for the city of this invocation.
C3_NoForecastWithoutCoordinates ==
    \A s \in Sessions :
        LET c == call[s]
        IN  Running(s, "get_weather") =>
              /\ (\A i \in 1 .. Len(c.geo) : ~Found(c.geo[i]))
                   => /\ c.sent = <<>>
                      /\ \A i \in 1 .. Len(c.ext) : c.ext[i] # "forecast"
                      /\ c.pc = "done" => c.out.kind = "raise"
              /\ c.sent # <<>>
                   => /\ c.geo # <<>>
                      /\ Found(Last(c.geo))
                      /\ Last(c.geo).city = c.arg
                      /\ c.sent = <<CoordsOf(Last(c.geo))>>

C3_Witness ==
    \E s \in Sessions :
        /\ Finished(s, "get_weather")
        /\ call[s].geo # <<>>
        /\ \A i \in 1 .. Len(call[s].geo) : call[s].geo[i].kind = "none"
        /\ call[s].out.kind = "raise"
        /\ call[s].sent = <<>>

\* C9: "no location found" is retried like a geocoder error: when every
\* attempt finds no location the geocoder is called exactly 3 times, and what
\* leaves get_weather is the retry wrapper's RetryError, not the ValueError.
C9_NotFoundIsRetried ==
    \A s \in Sessions :
        LET c == call[s]
        IN  ( /\ Running(s, "get_weather")
              /\ c.geo # <<>>
              /\ \A i \in 1 .. Len(c.geo) : c.geo[i].kind = "none" )
            => IF Len(c.geo) < 3
                 THEN c.pc = "geocode" /\ c.attempt = Len(c.geo) + 1
               ELSE /\ Len(c.geo) = 3
                    /\ c.pc = "done"
                    /\ c.out = Raise("RetryError", "get_coordinates")

C9_Witness ==
    \E s \in Sessions :
        /\ Finished(s, "get_weather")
        /\ Len(call[s].geo) = 3
        /\ \A i \in 1 .. 3 : call[s].geo[i].kind = "none"
        /\ call[s].out.val = "RetryError"

\* The places of a page: the path of every node below node.
RECURSIVE PathsOf(_, _)
PathsOf(node, path) ==
    {path} \cup UNION { PathsOf(node.kids[i], Append(path, i)) : i \in 1 .. Len(node.kids) }

RECURSIVE NodeAt(_, _)
NodeAt(node, path) ==
    IF path = <<>> THEN node ELSE NodeAt(node.kids[Head(path)], Tail(path))

\* Whether the node at path is, or lies inside, an element of one of the tags.
Inside(doc, path, tags) ==
    \E k \in 1 .. Len(path) : NodeAt(doc, SubSeq(path, 1, k)).tag \in tags

HasBody(doc) == \E p \in PathsOf(doc, <<>>) : NodeAt(doc, p).tag = "body"

\* Whether the body holds a word outside the stripped elements.
HasVisibleWord(doc) ==
    \E p \in PathsOf(doc, <<>>) :
        /\ NodeAt(doc, p).tag = "#text"
        /\ \E i \in 1 .. Len(NodeAt(doc, p).ws) : NodeAt(doc, p).ws[i].k = "w"
        /\ Inside(doc, p, {"body"})
        /\ ~Inside(doc, p, STRIP_TAGS)

\* Whether no character of the text comes from inside a stripped element.
NoStrippedText(doc, runs) ==
    \A i \in 1 .. Len(runs) :
        runs[i].k = "w" =>
            /\ runs[i].path \in PathsOf(doc, <<>>)
            /\ NodeAt(doc, runs[i].path).tag = "#text"
            /\ ~Inside(doc, runs[i].path, STRIP_TAGS)

Scraped(s) ==
    /\ Finished(s, "scrape_page_text")
    /\ call[s].resp.kind = "ok"
    /\ HasBody(call[s].resp.doc)

\* C4 as stated: for every fetched page that has a body, scrape_page_text
\* returns a non-empty text of at most 5000 characters with no text from
\* script, style, nav, footer or header elements.
C4_NonEmptyCleanText ==
    \A s \in Sessions :
        Scraped(s) =>
            /\ call[s].out.kind = "return"
            /\ TextLen(call[s].out.val) >= 1
            /\ TextLen(call[s].out.val) <= 5000
            /\ NoStrippedText(call[s].resp.doc, call[s].out.val)

\* C4 as amended: for every fetched page that has a body, scrape_page_text
\* returns a text of at most 5000 characters with no text from script, style,
\* nav, footer or header elements; the text is non-empty when the body holds
\* a word outside those elements, and it is the empty string when the body
\* is not inside such an element and holds no such word.
C4_CleanTextAtMost5000 ==
    \A s \in Sessions :
        Scraped(s) =>
            LET doc == call[s].resp.doc
                val == call[s].out.val
            IN  /\ call[s].out.kind = "return"
                /\ TextLen(val) <= 5000
                /\ NoStrippedText(doc, val)
                /\ HasVisibleWord(doc) => TextLen(val) >= 1
                /\ (~HasVisibleWord(doc) /\ ~\E p \in PathsOf(doc, <<>>) :
                        NodeAt(doc, p).tag = "body" /\ Inside(doc, p, STRIP_TAGS))
                     => val = <<>>

C4_Witness ==
    \E s \in Sessions :
        /\ Scraped(s)
        /\ TextLen(call[s].out.val) = 5000
        /\ HasVisibleWord(call[s].resp.doc)
        /\ \E p \in PathsOf(call[s].resp.doc, <<>>) :
              /\ NodeAt(call[s].resp.doc, p).tag = "#text"
              /\ NodeAt(call[s].resp.doc, p).ws = <<W(1)>>
              /\ Inside(call[s].resp.doc, p, STRIP_TAGS)

\* The title or link the claim expects: the placeholder when missing or empty.
Shown(attr, placeholder) ==
    IF attr.k \in {"absent", "none"} \/ attr.s = "" THEN placeholder ELSE attr.s

\* The lines of a string: its parts between line feeds.
Lines(str) ==
    LET feeds  == { i \in 1 .. Len(str) : SubSeq(str, i, i) = "\n" }
        feed(k) == CHOOSE i \in feeds : Cardinality({ j \in feeds : j < i }) = k - 1
        n      == Cardinality(feeds) + 1
    IN  [k \in 1 .. n |->
           SubSeq(str, IF k = 1 THEN 1 ELSE feed(k - 1) + 1,
                       IF k = n THEN Len(str) ELSE feed(k) - 1)]

\* C5: on a feed of n >= 1 entries and max_items >= 1, get_news_headlines
\* returns exactly min(max_items, n) lines, the i-th being "i. [title](link)"
\* of the i-th entry, with the placeholders for a missing or empty title or link.
C5_NumberedHeadlines ==
    \A s \in Sessions :
        LET c == call[s]
            n == Len(c.resp.entries)
        IN  ( /\ Finished(s, "get_news_headlines")
              /\ c.resp.kind = "ok" /\ n >= 1 /\ c.num >= 1 )
            => /\ c.out.kind = "return"
               /\ Len(Lines(c.out.val)) = Min(c.num, n)
               /\ \A i \in 1 .. Min(c.num, n) :
                    Lines(c.out.val)[i] =
                        ToString(i) \o ". ["
                        \o Shown(c.resp.entries[i].title, "(no title)") \o "]("
                        \o Shown(c.resp.entries[i].link, "#") \o ")"

C5_Witness ==
    \E s \in Sessions :
        /\ Finished(s, "get_news_headlines")
        /\ call[s].resp.kind = "ok" /\ Len(call[s].resp.entries) = 2
        /\ call[s].num = 1
        /\ call[s].resp.entries[1].title.k = "absent"
        /\ call[s].resp.entries[1].link.s = ""
        /\ call[s].out.val = "1. [(no title)](#)"

\* The place of the first mention of a tool in the text (0: never mentioned).
Mention(text, tool) == Find(text, tool)

\* C6 as stated: brief_today returns a static string that mentions all six
\* other tools, in the order of their invocation, and issues no HTTP call and
\* invokes no tool.
C6_MentionsAllSixTools ==
    \A s \in Sessions :
        Finished(s, "brief_today") =>
            /\ call[s].out.kind = "return"
            /\ call[s].ext = <<>>
            /\ \A tool \in {"scrape_page_text", "get_weather", "get_news_headlines",
                            "get_kbo_rank", "today_schedule", "daily_quote"} :
                 Mention(call[s].out.val, tool) > 0

\* C6 as amended: brief_today returns the same static string on every call;
\* the string mentions five of the six other tools, get_weather,
\* get_news_headlines, get_kbo_rank, today_schedule and daily_quote, in this
\* order, which is the order the caller is to invoke them in, and does not
\* mention scrape_page_text; brief_today issues no HTTP call and invokes no tool.
C6_MentionsFiveToolsInOrder ==
    \A s \in Sessions :
        Finished(s, "brief_today") =>
            LET text == call[s].out.val
            IN  /\ call[s].out.kind = "return"
                /\ call[s].ext = <<>> /\ call[s].resp = NoResp
                /\ \A t \in Sessions : Finished(t, "brief_today") => call[t].out = call[s].out
                /\ 0 < Mention(text, "get_weather")
                /\ Mention(text, "get_weather") < Mention(text, "get_news_headlines")
                /\ Mention(text, "get_news_headlines") < Mention(text, "get_kbo_rank")
                /\ Mention(text, "get_kbo_rank") < Mention(text, "today_schedule")
                /\ Mention(text, "today_schedule") < Mention(text, "daily_quote")
                /\ Mention(text, "scrape_page_text") = 0

C6_Witness ==
    \E s \in Sessions :
        /\ Finished(s, "brief_today")
        /\ Mention(call[s].out.val, "daily_quote") > 0

RankAnswered(s) ==
    /\ Finished(s, "get_kbo_rank")
    /\ call[s].resp.kind = "ok"
    /\ call[s].resp.shape = "dict"

\* C7: when the ranking endpoint answers with a payload whose team list is
\* empty or absent, get_kbo_rank returns the fixed "no data" string: no empty
\* string, no table of the header alone, no exception.
C7_NoDataOnEmptyList ==
    \A s \in Sessions :
        ( /\ RankAnswered(s)
          /\ \/ call[s].resp.list.k \in {"absent", "null"}
             \/ call[s].resp.list.teams = <<>> )
        => /\ call[s].out = Return(KBO_NO_DATA)
           /\ call[s].out.val # ""
           /\ call[s].out.val # KBO_HEADER

C7_Witness ==
    \E s \in Sessions :
        /\ RankAnswered(s)
        /\ call[s].resp.list.k = "list"
        /\ call[s].resp.list.teams = <<>>
        /\ call[s].out.val = KBO_NO_DATA

\* Whether the entry is a team with a numeric win percentage.
NumericPct(team) ==
    team.k = "dict" /\ team.rank.k = "dict" /\ team.rank.wpct.k = "num"

WeatherAlone(city, geo, resp) ==
    LET failed == { i \in 1 .. Len(geo) : ~Found(geo[i]) }
    IN  IF Len(geo) = 3 /\ failed = 1 .. 3
          THEN Raise("RetryError", "get_coordinates")
        ELSE IF Len(geo) \in 1 .. 3 /\ failed = 1 .. (Len(geo) - 1)
          THEN IF resp.kind # "ok" THEN Raise(resp.kind, "forecast")
               ELSE IF resp.shape # "dict" THEN Raise("AttributeError", "forecast")
               ELSE Return(weather_info(city, resp.cw))
        ELSE NoOut

\* What an invocation leaves with when it runs alone against the answers
\* its collaborators gave it.
RunAlone(c) ==
    CASE c.tool = "get_weather" -> WeatherAlone(c.arg, c.geo, c.resp)
      [] c.tool = "scrape_page_text" ->
           IF c.resp.kind = "ok" THEN Return(page_text(c.resp.doc))
           ELSE IF c.resp.kind = "HTTPStatusError"
             THEN Return(Literal("HTTP error: " \o ToString(c.resp.status)))
           ELSE IF c.resp.kind = "TimeoutException"
             THEN Return(Literal("request timed out: the page answers too slowly."))
           ELSE Return(Literal("scraping failed: " \o c.resp.kind))
      [] c.tool = "get_news_headlines" ->
           IF c.resp.kind = "ok" THEN Return(news_text(c.resp.entries, c.num))
           ELSE Return("news lookup failed: " \o c.resp.kind)
      [] c.tool = "get_kbo_rank" ->
           IF c.resp.kind = "ok" THEN Return(kbo_text(c.resp))
           ELSE Return(KBO_FAILED \o c.resp.kind)
      [] c.tool = "today_schedule" -> Return(Join(events, "\n"))
      [] c.tool = "daily_quote" ->
           IF c.resp.kind = "ok" THEN Return(c.resp.content)
           ELSE Raise(c.resp.kind, "chain.invoke")
      [] c.tool = "brief_today" -> Return(Join(brief_lines, "\n"))
      [] OTHER -> NoOut

\* Every finished invocation left with what it leaves with alone, and every
\* get_weather invocation counts its own geocoder calls.
ResultsAsAlone ==
    \A s \in Sessions :
        /\ call[s].pc = "done" => call[s].out = RunAlone(call[s])
        /\ (Running(s, "get_weather") /\ call[s].pc = "geocode")
             => call[s].attempt = Len(call[s].geo) + 1

==========================================================================
